---------------------------- MODULE Spec2Model ----------------------------
(***************************************************************************)
(* Model of src/src/common/hash.rs: the Hasher32 trait, its two            *)
(* implementations Sha256Hash and RecursiveHash, and the key derivation    *)
(* function kdf built from them.                                           *)
(*                                                                         *)
(* SHA-256 is modelled as a collision-free hash: a hash state is the       *)
(* sequence of bytes it has absorbed, and the digest of a state is that    *)
(* sequence wrapped in two marker values (256 and 257) that are no bytes,  *)
(* so that distinct absorbed sequences have distinct digests and a digest  *)
(* absorbed by another state stays recognisable.                           *)
(*                                                                         *)
(* Every hasher value carries two history fields that the program does not *)
(* store: fins, the number of finalize calls made on it, and late, whether *)
(* it received an update after a finalize.                                 *)
(***************************************************************************)
EXTENDS Integers, Sequences, FiniteSets, TLC

\* ------------------------------------------------------------- bounds

\* longest path a kdf call of Spec is given
MaxPathLen == 2
\* longest key a kdf call of Spec is given
MaxKeyLen == 1
\* longest path a kdf call of PairSpec is given
PairMaxPathLen == 2
\* number of update/finalize calls made on the MAC instance of MacSpec
MaxMacOps == 3

\* ---------------------------------------------------- program constants

\* hash.rs:39, the block size of the hash and the length of ipad and opad
BlockSize == 64
\* hash.rs:41
IpadByte == 54
\* hash.rs:42
OpadByte == 92

\* hash.rs:79, b"VMess AEAD KDF"
KdfSalt == <<86, 77, 101, 115, 115, 32, 65, 69, 65, 68, 32, 75, 68, 70>>

\* ------------------------------------------------------------- inputs

\* the byte values keys and labels are made of
InputBytes == {0, 1}

RECURSIVE SeqsUpTo(_, _)
SeqsUpTo(S, n) ==
    IF n = 0 THEN {<<>>}
    ELSE LET shorter == SeqsUpTo(S, n - 1)
         IN  shorter \cup {Append(s, x) : s \in {t \in shorter : Len(t) = n - 1}, x \in S}

Fill(n, b) == [i \in 1..n |-> b]

\* labels: the short ones, one of exactly BlockSize bytes, one of BlockSize + 1
Labels == SeqsUpTo(InputBytes, 1) \cup {Fill(BlockSize, 1), Fill(BlockSize + 1, 1)}
Keys == SeqsUpTo(InputBytes, MaxKeyLen)
Paths == SeqsUpTo(Labels, MaxPathLen)

PairLabels == SeqsUpTo(InputBytes, 1)
PairKeys == {<<>>, <<1>>}
PairPaths == SeqsUpTo(PairLabels, PairMaxPathLen)

MacKeys == {<<>>, <<1>>, Fill(BlockSize, 1)}
MacData == {<<0>>, <<1>>}

Calls == {1, 2}

\* ------------------------------------------------------- byte arithmetic

\* u8 ^ u8 (hash.rs:45-46)
RECURSIVE XorBits(_, _, _)
XorBits(a, b, n) ==
    IF n = 0 THEN 0
    ELSE ((a + b) % 2) + 2 * XorBits(a \div 2, b \div 2, n - 1)

Xor(a, b) == XorBits(a, b, 8)

\* ------------------------------------------------------------ Sha256Hash

\* Sha256::finalize of a state that absorbed s
Digest(s) == <<256>> \o s \o <<257>>

\* Sha256Hash::new
Sha256New == [kind |-> "sha", data |-> <<>>, fins |-> 0, late |-> FALSE]

\* ------------------------------------------------------------ Hasher32

\* Hasher32::update, for Sha256Hash (hash.rs:20-22) and RecursiveHash (64-66)
RECURSIVE Update(_, _)
Update(h, d) ==
    IF h.kind = "sha"
    THEN [h EXCEPT !.data = @ \o d, !.late = @ \/ (h.fins > 0)]
    ELSE [h EXCEPT !.inner = Update(h.inner, d), !.late = @ \/ (h.fins > 0)]

RECURSIVE Finalize(_)

\* Finalize with the outer hasher not fed opad before the inner digest
FinalizeNoOpad(h) ==
    IF h.kind = "sha"
    THEN [h |-> [h EXCEPT !.fins = @ + 1], out |-> Digest(h.data)]
    ELSE LET i == Finalize(h.inner)
             o == Finalize(Update(h.outer, i.out))
         IN  [h   |-> [h EXCEPT !.inner = i.h, !.outer = o.h, !.fins = @ + 1],
              out |-> o.out]

\* Hasher32::finalize, for Sha256Hash (hash.rs:24-26) and RecursiveHash (68-73):
\* the hasher as the call leaves it and the digest returned
Finalize(h) ==
    IF h.kind = "sha"
    THEN [h |-> [h EXCEPT !.fins = @ + 1], out |-> Digest(h.data)]
    ELSE LET i  == Finalize(h.inner)
             o1 == Update(h.outer, h.opad)
             o2 == Update(o1, i.out)
             o  == Finalize(o2)
         IN  [h   |-> [h EXCEPT !.inner = i.h, !.outer = o.h, !.fins = @ + 1],
              out |-> o.out]

\* ---------------------------------------------------------- RecursiveHash

\* KeyFits with the bound off by one
KeyFitsOffByOne(key) == Len(key) <= BlockSize + 1

\* the assertion of RecursiveHash::new
KeyFits(key) == Len(key) <= BlockSize

\* Pad with the key not folded into the pad
PadNoKey(key, b) == [i \in 1..BlockSize |-> b]

\* ipad and opad of RecursiveHash::new: the pad byte, xor-ed with the key
Pad(key, b) ==
    [i \in 1..BlockSize |-> IF i <= Len(key) THEN Xor(b, key[i]) ELSE b]

\* RecursiveHashNew with the outer hasher fed opad at construction already
RecursiveHashNewEagerOuter(key, base) ==
    [kind  |-> "rh",
     inner |-> Update(base, Pad(key, IpadByte)),
     outer |-> Update(base, Pad(key, OpadByte)),
     opad  |-> Pad(key, OpadByte),
     fins  |-> 0,
     late  |-> FALSE]

\* RecursiveHash::new(key, base), for a key that passes the assertion
RecursiveHashNew(key, base) ==
    [kind  |-> "rh",
     inner |-> Update(base, Pad(key, IpadByte)),
     outer |-> base,
     opad  |-> Pad(key, OpadByte),
     fins  |-> 0,
     late  |-> FALSE]

\* FinalizeHasher finalizing the hasher it hands on
FinalizeHasherFinalized(h) == Finalize(h).h

\* FinalizeHasher::finalize_hasher
FinalizeHasher(h) == h


\* ------------------------------------------------------------------ state

VARIABLES
    key,        \* key[c]: the key argument of kdf call c
    path,       \* path[c]: the path argument of kdf call c
    pc,         \* pc[c]: where call c stands in kdf
    idx,        \* idx[c]: the number of labels the loop of call c has consumed
    current,    \* current[c]: the local variable current of call c
    retired,    \* retired[c]: the use made of each hasher call c has dropped
    outcome,    \* outcome[c]: how call c ended
    mac,        \* MacSpec: a RecursiveHash over a fresh Sha256Hash
    macKey,     \* MacSpec: the key mac was constructed with
    macLog,     \* MacSpec: the data passed to mac.update so far, in order
    macTags,    \* MacSpec: for each finalize made on mac, the tag and the log then
    macOps      \* MacSpec: the number of calls made on mac

kdfVars == <<key, path, pc, idx, current, retired, outcome>>
macVars == <<mac, macKey, macLog, macTags, macOps>>
vars == <<key, path, pc, idx, current, retired, outcome,
          mac, macKey, macLog, macTags, macOps>>

\* the use made of a hasher and of the hashers nested in it: h without the bytes
RECURSIVE Usage(_)
Usage(h) ==
    IF h.kind = "rh"
    THEN [kind |-> "rh", fins |-> h.fins, late |-> h.late,
          inner |-> Usage(h.inner), outer |-> Usage(h.outer)]
    ELSE [kind |-> h.kind, fins |-> h.fins, late |-> h.late]

\* the value of a hasher variable that holds no hasher
NoHasher == [kind |-> "none"]

NoOutcome == [kind |-> "none", tag |-> <<>>]
\* kdf returning its [u8; 32]
Returned(t) == [kind |-> "ok", tag |-> t]
\* the assertion of RecursiveHash::new failing: the thread panics
Panicked == [kind |-> "panic", tag |-> <<>>]

\* ------------------------------------------------------------------- kdf

\* KdfNew starting from the hasher another call holds, when there is one
KdfNewShared(c) ==
    /\ pc[c] = "call"
    /\ current' = [current EXCEPT
                     ![c] = IF \E d \in Calls \ {c} : pc[d] \in {"loop", "final"}
                            THEN current[CHOOSE d \in Calls \ {c} : pc[d] \in {"loop", "final"}]
                            ELSE RecursiveHashNew(KdfSalt, Sha256New)]
    /\ pc' = [pc EXCEPT ![c] = "loop"]
    /\ UNCHANGED <<key, path, idx, retired, outcome, macVars>>

\* hash.rs:78-79  current = Box::new(RecursiveHash::new(b"VMess AEAD KDF", Sha256Hash::new()))
KdfNew(c) ==
    /\ pc[c] = "call"
    /\ IF KeyFits(KdfSalt)
       THEN /\ current' = [current EXCEPT ![c] = RecursiveHashNew(KdfSalt, Sha256New)]
            /\ pc' = [pc EXCEPT ![c] = "loop"]
            /\ outcome' = outcome
       ELSE /\ pc' = [pc EXCEPT ![c] = "panicked"]
            /\ outcome' = [outcome EXCEPT ![c] = Panicked]
            /\ current' = current
    /\ UNCHANGED <<key, path, idx, retired, macVars>>

\* KdfLoop finalizing the current instance and feeding its tag to the next
KdfLoopFinalizing(c) ==
    /\ pc[c] = "loop"
    /\ idx[c] < Len(path[c])
    /\ LET p == path[c][idx[c] + 1]
           f == Finalize(current[c])
       IN  IF KeyFits(p)
           THEN /\ current' = [current EXCEPT
                                 ![c] = Update(RecursiveHashNew(p, f.h), f.out)]
                /\ retired' = [retired EXCEPT ![c] = Append(@, Usage(current[c]))]
                /\ idx' = [idx EXCEPT ![c] = @ + 1]
                /\ UNCHANGED <<pc, outcome>>
           ELSE /\ pc' = [pc EXCEPT ![c] = "panicked"]
                /\ outcome' = [outcome EXCEPT ![c] = Panicked]
                /\ retired' = [retired EXCEPT ![c] = Append(@, Usage(current[c]))]
                /\ current' = [current EXCEPT ![c] = NoHasher]
                /\ idx' = idx
    /\ UNCHANGED <<key, path, macVars>>

\* hash.rs:81-83  one iteration of the loop:
\* current = Box::new(RecursiveHash::new(p, current.finalize_hasher()))
KdfLoop(c) ==
    /\ pc[c] = "loop"
    /\ idx[c] < Len(path[c])
    /\ LET p == path[c][idx[c] + 1]
       IN  IF KeyFits(p)
           THEN /\ current' = [current EXCEPT
                                 ![c] = RecursiveHashNew(p, FinalizeHasher(current[c]))]
                /\ retired' = [retired EXCEPT ![c] = Append(@, Usage(current[c]))]
                /\ idx' = [idx EXCEPT ![c] = @ + 1]
                /\ UNCHANGED <<pc, outcome>>
           ELSE /\ pc' = [pc EXCEPT ![c] = "panicked"]
                /\ outcome' = [outcome EXCEPT ![c] = Panicked]
                /\ retired' = [retired EXCEPT ![c] = Append(@, Usage(current[c]))]
                /\ current' = [current EXCEPT ![c] = NoHasher]
                /\ idx' = idx
    /\ UNCHANGED <<key, path, macVars>>

\* hash.rs:85  current.update(key), once the loop has consumed the path
KdfUpdate(c) ==
    /\ pc[c] = "loop"
    /\ idx[c] = Len(path[c])
    /\ current' = [current EXCEPT ![c] = Update(@, key[c])]
    /\ pc' = [pc EXCEPT ![c] = "final"]
    /\ UNCHANGED <<key, path, idx, retired, outcome, macVars>>

\* hash.rs:86  current.finalize(), the value kdf returns; current is dropped
KdfFinalize(c) ==
    /\ pc[c] = "final"
    /\ LET f == Finalize(current[c])
       IN  /\ outcome' = [outcome EXCEPT ![c] = Returned(f.out)]
           /\ retired' = [retired EXCEPT ![c] = Append(@, Usage(f.h))]
    /\ current' = [current EXCEPT ![c] = NoHasher]
    /\ pc' = [pc EXCEPT ![c] = "done"]
    /\ UNCHANGED <<key, path, idx, macVars>>

KdfStep(c) == KdfNew(c) \/ KdfLoop(c) \/ KdfUpdate(c) \/ KdfFinalize(c)

\* ------------------------------------------------- a MAC instance in use

\* hash.rs:64-66  mac.update(d)
MacUpdate(d) ==
    /\ macOps < MaxMacOps
    /\ mac' = Update(mac, d)
    /\ macLog' = macLog \o d
    /\ macOps' = macOps + 1
    /\ UNCHANGED <<macKey, macTags, kdfVars>>

\* hash.rs:68-73  mac.finalize()
MacFinalize ==
    /\ macOps < MaxMacOps
    /\ LET f == Finalize(mac)
       IN  /\ mac' = f.h
           /\ macTags' = Append(macTags, [tag |-> f.out, log |-> macLog])
    /\ macOps' = macOps + 1
    /\ UNCHANGED <<macKey, macLog, kdfVars>>

\* --------------------------------------------------------- specifications

MacIdle ==
    /\ mac = NoHasher
    /\ macKey = <<>>
    /\ macLog = <<>>
    /\ macTags = <<>>
    /\ macOps = 0

KdfInit(active, ks, ps) ==
    /\ key \in [Calls -> ks]
    /\ path \in [Calls -> ps]
    /\ \A c \in Calls \ active : key[c] = <<>> /\ path[c] = <<>>
    /\ pc = [c \in Calls |-> IF c \in active THEN "call" ELSE "idle"]
    /\ idx = [c \in Calls |-> 0]
    /\ current = [c \in Calls |-> NoHasher]
    /\ retired = [c \in Calls |-> <<>>]
    /\ outcome = [c \in Calls |-> NoOutcome]

\* one kdf call, on every key and path of the bounds
Init == KdfInit({1}, Keys, Paths) /\ MacIdle
Next == KdfStep(1)
Spec == Init /\ [][Next]_vars

\* two kdf calls running interleaved, on one key and on two paths
PairInit ==
    /\ KdfInit(Calls, PairKeys, PairPaths)
    /\ key[1] = key[2]
    /\ MacIdle
PairNext == \E c \in Calls : KdfStep(c)
PairSpec == PairInit /\ [][PairNext]_vars

\* one MAC instance over a fresh hash, and any calls made on it
MacInit ==
    /\ KdfInit({}, {<<>>}, {<<>>})
    /\ macKey \in MacKeys
    /\ mac = RecursiveHashNew(macKey, Sha256New)
    /\ macLog = <<>>
    /\ macTags = <<>>
    /\ macOps = 0
MacNext == (\E d \in MacData : MacUpdate(d)) \/ MacFinalize
MacSpec == MacInit /\ [][MacNext]_vars

\* ------------------------------------------- what the claims are stated with

Terminated(c) == pc[c] \in {"done", "panicked"}
\* the guards of the four steps of kdf: call c has a step to take
CanStep(c) ==
    \/ pc[c] \in {"call", "final"}
    \/ pc[c] = "loop" /\ idx[c] <= Len(path[c])
AllFit(p) == \A i \in 1..Len(p) : Len(p[i]) <= BlockSize

\* Hash(opad || Hash(ipad || msg)) for the key k, over a fresh hash
Hmac(k, msg) ==
    Digest([i \in 1..BlockSize |-> IF i <= Len(k) THEN Xor(OpadByte, k[i]) ELSE OpadByte]
           \o Digest([i \in 1..BlockSize |-> IF i <= Len(k) THEN Xor(IpadByte, k[i]) ELSE IpadByte]
                     \o msg))

\* the chain of section 4.2 of the specification, from label i on: the current
\* instance is keyed by k and was updated with data
RECURSIVE SequentialChain(_, _, _, _, _)
SequentialChain(k, data, p, i, ky) ==
    IF i > Len(p)
    THEN Hmac(k, data \o ky)
    ELSE SequentialChain(p[i], Hmac(k, data), p, i + 1, ky)

\* H_n of the nested construction: H_0 is the HMAC keyed by the salt over the
\* hash, H_n the HMAC keyed by p[n] over H_(n-1)
RECURSIVE NestedHmac(_, _, _)
NestedHmac(p, n, msg) ==
    IF n = 0
    THEN Hmac(KdfSalt, msg)
    ELSE NestedHmac(p, n - 1,
           [i \in 1..BlockSize |-> IF i <= Len(p[n]) THEN Xor(OpadByte, p[n][i]) ELSE OpadByte]
           \o NestedHmac(p, n - 1,
                [i \in 1..BlockSize |-> IF i <= Len(p[n]) THEN Xor(IpadByte, p[n][i]) ELSE IpadByte]
                \o msg))

\* no finalize was ever called on h or on a hasher nested in it
RECURSIVE Unfinalized(_)
Unfinalized(h) ==
    \/ h.kind = "none"
    \/ /\ h.fins = 0
       /\ h.kind = "rh" => Unfinalized(h.inner) /\ Unfinalized(h.outer)

\* h and every hasher nested in it: finalized at most once, never updated afterwards
RECURSIVE UsedOnce(_)
UsedOnce(h) ==
    \/ h.kind = "none"
    \/ /\ h.fins <= 1
       /\ ~h.late
       /\ h.kind = "rh" => UsedOnce(h.inner) /\ UsedOnce(h.outer)

\* h and every hasher nested in it was finalized exactly once
RECURSIVE AllFinalized(_)
AllFinalized(h) ==
    /\ h.kind # "none"
    /\ h.fins = 1
    /\ h.kind = "rh" => AllFinalized(h.inner) /\ AllFinalized(h.outer)

\* the depth of nesting of h: 0 for a Sha256Hash
RECURSIVE Depth(_)
Depth(h) == IF h.kind = "rh" THEN 1 + Depth(h.inner) ELSE 0

\* ----------------------------------------------------------------- claims

\* C1 as the specification states it: for a non-empty path of labels of at most
\* 64 bytes, kdf returns the result of the sequential chain (finalize the current
\* instance to v, key a new instance over a fresh hash by the label, update it
\* with v).
C1_SequentialChain ==
    (pc[1] = "done" /\ path[1] # <<>> /\ AllFit(path[1]))
        => outcome[1] = Returned(SequentialChain(KdfSalt, <<>>, path[1], 1, key[1]))

\* C1, amended: for every path of labels of at most 64 bytes kdf returns the
\* result of the chain in which each label keys a new MAC instance over a clone
\* of the current, unfinalized instance (nothing is finalized, no value v is
\* fed), and before each label is consumed the current instance is unfinalized
\* and nested one level per label consumed; the result is that of the
\* sequential chain exactly when the path is empty.
C1_CloneChain ==
    /\ pc[1] \in {"loop", "final"} =>
           /\ Unfinalized(current[1])
           /\ Depth(current[1]) = idx[1] + 1
           /\ current[1].opad =
                  [i \in 1..BlockSize |->
                      IF idx[1] > 0 /\ i <= Len(path[1][idx[1]])
                      THEN Xor(OpadByte, path[1][idx[1]][i])
                      ELSE IF idx[1] = 0 /\ i <= Len(KdfSalt)
                           THEN Xor(OpadByte, KdfSalt[i]) ELSE OpadByte]
    /\ pc[1] = "done" =>
           /\ AllFit(path[1])
           /\ outcome[1].kind = "ok"
           /\ (outcome[1].tag = SequentialChain(KdfSalt, <<>>, path[1], 1, key[1]))
                  <=> (path[1] = <<>>)
           /\ outcome[1].tag = NestedHmac(path[1], Len(path[1]), key[1])

C1_Witness ==
    /\ pc[1] = "done"
    /\ Len(path[1]) = 2
    /\ key[1] # <<>>
    /\ outcome[1].tag # SequentialChain(KdfSalt, <<>>, path[1], 1, key[1])

\* C2: kdf(key, []) completes and returns Hash(opad || Hash(ipad || key)) for
\* the pads of "VMess AEAD KDF"; the loop performs no step.
C2_EmptyPath ==
    path[1] = <<>> =>
        /\ pc[1] # "panicked"
        /\ idx[1] = 0
        /\ pc[1] # "done" => CanStep(1)
        /\ pc[1] = "done" =>
              /\ outcome[1] = Returned(Hmac(KdfSalt, key[1]))
              /\ Len(retired[1]) = 1

C2_Witness ==
    /\ pc[1] = "done"
    /\ path[1] = <<>>
    /\ Len(key[1]) = MaxKeyLen
    /\ outcome[1].kind = "ok"

\* C3: kdf returns a digest when every label has at most 64 bytes (64 included)
\* and fails on the key-too-long check when a label has 65 or more, whatever
\* the key; a label that is too long is never shortened to make the call succeed.
C3_BlockSizeBoundary ==
    /\ pc[1] = "done" => AllFit(path[1]) /\ outcome[1].kind = "ok"
                         /\ outcome[1].tag[1] = 256
    /\ pc[1] = "panicked" =>
           /\ ~AllFit(path[1])
           /\ outcome[1] = Panicked
           /\ Len(path[1][idx[1] + 1]) > BlockSize
    /\ ~Terminated(1) =>
           /\ CanStep(1)
           /\ outcome[1] = NoOutcome
           /\ \A i \in 1..idx[1] : Len(path[1][i]) <= BlockSize
    /\ (Terminated(1) /\ ~AllFit(path[1])) => pc[1] = "panicked"

C3_Witness ==
    /\ pc[1] = "panicked"
    /\ Len(path[1]) = 2
    /\ Len(path[1][1]) = BlockSize
    /\ Len(path[1][2]) = BlockSize + 1
    /\ idx[1] = 1

\* C4: a label longer than 64 bytes ends kdf in an error value the caller can
\* observe and continue from, never in a panic.
C4_RecoverableError ==
    (Terminated(1) /\ ~AllFit(path[1])) =>
        /\ pc[1] = "done"
        /\ outcome[1].kind = "err"

\* C9: for a path of labels of at most 64 bytes kdf returns H_n(key) of the
\* nested HMAC construction, the inner and the outer hasher of every instance
\* being separate copies of the instance one level down in its just-constructed
\* state; no instance is finalized before the final finalize call.
C9_NestedHmac ==
    /\ pc[1] = "done" =>
           outcome[1] = Returned(NestedHmac(path[1], Len(path[1]), key[1]))
    /\ pc[1] \in {"loop", "final"} =>
           /\ \A i \in 1..Len(retired[1]) : Unfinalized(retired[1][i])
           /\ Unfinalized(current[1])
    /\ (pc[1] = "loop" /\ idx[1] > 0) =>
           /\ Usage(current[1].outer) = retired[1][idx[1]]
           /\ current[1].inner =
                  Update(current[1].outer,
                         [i \in 1..BlockSize |->
                             IF i <= Len(path[1][idx[1]])
                             THEN Xor(IpadByte, path[1][idx[1]][i]) ELSE IpadByte])
           /\ \A m \in Keys :
                 /\ Finalize(Update(current[1].outer, m)).out
                        = NestedHmac(path[1], idx[1] - 1, m)
                 /\ Finalize(Update(current[1], m)).out
                        = NestedHmac(path[1], idx[1], m)

C9_Witness ==
    /\ pc[1] = "done"
    /\ Len(path[1]) = 2
    /\ path[1][1] # path[1][2]
    /\ outcome[1] = Returned(NestedHmac(path[1], 2, key[1]))

\* C10: during a kdf call finalize is invoked at most once on every hasher,
\* the copies nested as inner or outer hasher of a later instance included,
\* and no hasher receives an update after it was finalized.
C10_FinalizedAtMostOnce ==
    /\ UsedOnce(current[1])
    /\ \A i \in 1..Len(retired[1]) : UsedOnce(retired[1][i])
    /\ pc[1] = "done" =>
           /\ AllFinalized(retired[1][Len(retired[1])])
           /\ \A i \in 1..(Len(retired[1]) - 1) : Unfinalized(retired[1][i])

C10_Witness ==
    /\ pc[1] = "done"
    /\ Len(path[1]) = 2
    /\ AllFinalized(retired[1][Len(retired[1])])
    /\ Depth(retired[1][Len(retired[1])]) = 3

\* a label as RecursiveHash::new pads it: extended by zero bytes to the block size
ZeroExtend(l) == [i \in 1..BlockSize |-> IF i <= Len(l) THEN l[i] ELSE 0]

\* calls 1 and 2 were given the same key, call 1 the path [a, b], call 2 [b, a]
Swapped ==
    /\ key[1] = key[2]
    /\ Len(path[1]) = 2
    /\ path[2] = <<path[1][2], path[1][1]>>

\* C5: once finalize was called on a MAC instance, no later update or finalize
\* on that instance succeeds.
C5_SingleUse ==
    /\ Len(macTags) <= 1
    /\ Len(macTags) = 1 => macLog = macTags[1].log

\* C6: every tag a finalize returns is Hash(opad || Hash(ipad || the data
\* passed to update so far)), the outer hash state having absorbed opad and
\* the inner digest and nothing else.
C6_OuterSeesOpadAndDigest ==
    /\ \A i \in 1..Len(macTags) : macTags[i].tag = Hmac(macKey, macTags[i].log)
    /\ mac.outer.data # <<>> =>
           \E i \in 1..Len(macTags) : Digest(mac.outer.data) = macTags[i].tag

C8_OrderMatters ==
    (pc[1] = "done" /\ pc[2] = "done" /\ Swapped /\ path[1][1] # path[1][2])
        => outcome[1].tag # outcome[2].tag

\* C8, amended: for all labels a and b of at most 64 bytes that differ after
\* zero-extension to 64 bytes, kdf(key, [a, b]) differs from kdf(key, [b, a]);
\* labels that differ only in trailing zero bytes give the same result.
C8_OrderMattersUpToPadding ==
    (pc[1] = "done" /\ pc[2] = "done" /\ Swapped)
        => (outcome[1].tag = outcome[2].tag
               <=> ZeroExtend(path[1][1]) = ZeroExtend(path[1][2]))

C8_Witness ==
    /\ pc[1] = "done" /\ pc[2] = "done"
    /\ Swapped
    /\ ZeroExtend(path[1][1]) # ZeroExtend(path[1][2])
    /\ outcome[1].tag # outcome[2].tag

=============================================================================
